---- MODULE Spec2Model ----
(***************************************************************************)
(* Model of the geometry loader of dinorun3d (src/src/ObjLoader.cpp) and   *)
(* of its game loop (src/src/main.cpp).                                    *)
(*                                                                         *)
(* A std::string is a sequence of one-character strings, a text file is a  *)
(* sequence of lines (what std::getline hands out), and the file system is *)
(* a function from paths to files.  The alphabet of the modelled files is  *)
(* letters, the digits, "/", "#" and the blank; numeric literals are       *)
(* unsigned decimal digit runs, so operator>> on an int and on a float     *)
(* accept the same texts.                                                  *)
(***************************************************************************)
EXTENDS Integers, Sequences, FiniteSets, TLC

VARIABLES
    fs,            \* the files on disk: path -> sequence of lines (never written)
    gTextureName,  \* ObjLoader.cpp:7, the process-wide std::string
    loaders,       \* the ObjLoader objects constructed so far, in order
    ret,           \* what the last ObjLoader::getTriangles call produced
    vertexDataFloor,  \* main.cpp:326, the floats of the last glBufferData
    gDebug,        \* main.cpp:68
    tick,          \* main.cpp:71
    dayTick,       \* main.cpp:74
    isJumping,     \* main.cpp:80
    jumpingUp,     \* main.cpp:83
    gameOver,      \* main.cpp:86
    cactusSpeed,   \* main.cpp:89
    jumpingSpeed,  \* main.cpp:92
    cactusStart,   \* main.cpp:95
    colorOffset,   \* main.cpp:98
    isDaytime,     \* main.cpp:101
    g,             \* globals.hpp, Global g: currentDinoHeight, cactusPosition
    jumpPeak,      \* history: the greatest height of the jump last started
    pc             \* where MainLoop stands: before Input or before the body

\* The game's globals and the history of its jumps.
game == <<gDebug, tick, dayTick, isJumping, jumpingUp, gameOver, cactusSpeed,
          jumpingSpeed, cactusStart, colorOffset, isDaytime, g, jumpPeak>>

vars == <<fs, gTextureName, loaders, ret, vertexDataFloor, game, pc>>

(***************************************************************************)
(* Bounds of the model.                                                    *)
(***************************************************************************)
MaxLoaders == 2   \* ObjLoader objects alive in one run of Spec
MaxTail == 2      \* lines after the pool header of a generated geometry file

(***************************************************************************)
(* Characters and strings.                                                 *)
(***************************************************************************)
Digits == <<"0", "1", "2", "3", "4", "5", "6", "7", "8", "9">>

IsDigit(c) == \E d \in 1..Len(Digits) : Digits[d] = c

DigitVal(c) == (CHOOSE d \in 1..Len(Digits) : Digits[d] = c) - 1

IsSpace(c) == c = " "

EmptyStr == <<>>

\* The value Traits::eof() of peek(); no character of a file equals it.
EOF == "EOF"

\* std::string::find_last_of(c): the 1-based position of the last c in s,
\* 0 when there is none (std::string::npos).
RECURSIVE FindLastOf(_, _, _)
FindLastOf(s, c, p) ==
    IF p = 0 THEN 0
    ELSE IF s[p] = c THEN p
    ELSE FindLastOf(s, c, p - 1)

\* filename.substr(0, filename.find_last_of('/')): the characters before the
\* last '/', and the whole name when it has no '/' (substr(0, npos)).
Directory(filename) ==
    LET k == FindLastOf(filename, "/", Len(filename))
    IN  IF k = 0 THEN filename ELSE SubSeq(filename, 1, k - 1)

(***************************************************************************)
(* std::istringstream.  buf is the text, pos the next character to read,   *)
(* good is good(): no eofbit and no failbit.  Every formatted extraction   *)
(* starts with a sentry that fails when the stream is not good or when     *)
(* skipping blanks reaches the end; a failed sentry leaves the target      *)
(* variable untouched.                                                     *)
(***************************************************************************)
Stream(line) == [buf |-> line, pos |-> 1, good |-> TRUE]

RECURSIVE SkipWs(_, _)
SkipWs(buf, p) ==
    IF p <= Len(buf) /\ IsSpace(buf[p]) THEN SkipWs(buf, p + 1) ELSE p

\* First position at or after p holding a blank, Len(buf)+1 when none.
RECURSIVE TokenEnd(_, _)
TokenEnd(buf, p) ==
    IF p <= Len(buf) /\ ~IsSpace(buf[p]) THEN TokenEnd(buf, p + 1) ELSE p

\* First position at or after p not holding a digit.
RECURSIVE DigitsEnd(_, _)
DigitsEnd(buf, p) ==
    IF p <= Len(buf) /\ IsDigit(buf[p]) THEN DigitsEnd(buf, p + 1) ELSE p

\* The number written by the digits buf[p..e-1].
RECURSIVE NumVal(_, _, _)
NumVal(buf, p, e) ==
    IF e <= p THEN 0
    ELSE 10 * NumVal(buf, p, e - 1) + DigitVal(buf[e - 1])

\* iss >> str for a std::string, once the sentry has skipped the blanks up
\* to position p.
ExtractStringAt(s, old, p) ==
    IF p > Len(s.buf)
    THEN [stream |-> [s EXCEPT !.pos = p, !.good = FALSE], val |-> old]
    ELSE [stream |-> [s EXCEPT !.pos = TokenEnd(s.buf, p),
                               !.good = (TokenEnd(s.buf, p) <= Len(s.buf))],
          val |-> SubSeq(s.buf, p, TokenEnd(s.buf, p) - 1)]

\* iss >> str for a std::string: old is the string's value before the call.
ExtractString(s, old) ==
    IF ~s.good THEN [stream |-> s, val |-> old]
    ELSE ExtractStringAt(s, old, SkipWs(s.buf, s.pos))

\* iss >> n reading the digits buf[p..e-1]: a text that is no number stores 0
\* and sets failbit; reading the last character of the buffer sets eofbit.
ExtractDigits(s, p, e) ==
    IF e = p
    THEN [stream |-> [s EXCEPT !.pos = p, !.good = FALSE], val |-> 0]
    ELSE [stream |-> [s EXCEPT !.pos = e, !.good = (e <= Len(s.buf))],
          val |-> NumVal(s.buf, p, e)]

\* iss >> n, once the sentry has skipped the blanks up to position p.
ExtractNumAt(s, old, p) ==
    IF p > Len(s.buf)
    THEN [stream |-> [s EXCEPT !.pos = p, !.good = FALSE], val |-> old]
    ELSE ExtractDigits(s, p, DigitsEnd(s.buf, p))

\* iss >> n for an int or a float: old is the variable's value before the
\* call.
ExtractNum(s, old) ==
    IF ~s.good THEN [stream |-> s, val |-> old]
    ELSE ExtractNumAt(s, old, SkipWs(s.buf, s.pos))

\* iss.peek(): the next character, EOF when the stream is not good or is at
\* its end.
Peek(s) ==
    IF s.good /\ s.pos <= Len(s.buf) THEN s.buf[s.pos] ELSE EOF

\* iss.get(): consumes one character.
Get(s) ==
    IF s.good /\ s.pos <= Len(s.buf)
    THEN [s EXCEPT !.pos = @ + 1]
    ELSE [s EXCEPT !.good = FALSE]

(***************************************************************************)
(* Indeterminate values.  `Face face;`, `Vertex vertex;`, `Normal normal;` *)
(* and `TextureCoords texture;` are default-initialised locals: a member   *)
(* no extraction writes holds an indeterminate value.  An oracle o gives   *)
(* the value such a member is read with: o.int for an index, o.float for a *)
(* coordinate.  (Vertex also has r,g,b,nx,ny,nz, which load never writes   *)
(* and no claim reads; they are left out.)                                 *)
(***************************************************************************)
GarbageInt == {0, 1}

GarbageFloat == {0, 7}

Oracles == [int : GarbageInt, float : GarbageFloat]

(***************************************************************************)
(* ObjLoader::load, ObjLoader.cpp:15-76.                                   *)
(***************************************************************************)
KwV == <<"v">>
KwVt == <<"v", "t">>
KwVn == <<"v", "n">>
KwF == <<"f">>
KwMtllib == <<"m", "t", "l", "l", "i", "b">>
KwMapKd == <<"m", "a", "p", "_", "K", "d">>

\* The lines std::getline reads from std::ifstream(path): none when the file
\* cannot be opened.
ReadLines(files, path) ==
    IF path \in DOMAIN files THEN files[path] ELSE <<>>

\* n chained extractions `iss >> a >> b ...` into members that hold old
\* before: the n values after them.
RECURSIVE ExtractNums(_, _, _)
NumsAfter(r, n, old) == <<r.val>> \o ExtractNums(r.stream, n - 1, old)

ExtractNums(iss, n, old) ==
    IF n = 0 THEN <<>> ELSE NumsAfter(ExtractNum(iss, old), n, old)

\* ObjLoader.cpp:30-32.
VertexOf(nums) == [x |-> nums[1], y |-> nums[2], z |-> nums[3]]

ParseVertex(iss, o) == VertexOf(ExtractNums(iss, 3, o.float))

\* ObjLoader.cpp:34-35.
TextureOf(nums) == [u |-> nums[1], v |-> nums[2]]

ParseTexture(iss, o) == TextureOf(ExtractNums(iss, 2, o.float))

\* ObjLoader.cpp:38-39.
NormalOf(nums) == [nx |-> nums[1], ny |-> nums[2], nz |-> nums[3]]

ParseNormal(iss, o) == NormalOf(ExtractNums(iss, 3, o.float))

\* ObjLoader.cpp:55-57 without `--face.textureIndices[i]`.
CornerDecrementedNoTexture(vi, ti, n) ==
    [stream |-> n.stream, v |-> vi - 1, t |-> ti, n |-> n.val - 1]

\* ObjLoader.cpp:55-57: the three decrements.  vi and ti are the position
\* and texture index as read, n the normal's extraction.
CornerDecremented(vi, ti, n) ==
    [stream |-> n.stream, v |-> vi - 1, t |-> ti - 1, n |-> n.val - 1]

\* ObjLoader.cpp:50-53: after the texture slot, a second '/' brings the
\* normal index.
CornerAfterTexture(vi, t, old) ==
    CornerDecremented(vi, t.val,
        IF Peek(t.stream) = "/"
        THEN ExtractNum(Get(t.stream), old.n)
        ELSE [stream |-> t.stream, val |-> old.n])

\* ObjLoader.cpp:47-49: after the first '/', a texture index unless another
\* '/' follows at once.
CornerAfterSlash(vi, s, old) ==
    CornerAfterTexture(vi,
        IF Peek(s) # "/"
        THEN ExtractNum(s, old.t)
        ELSE [stream |-> s, val |-> old.t],
        old)

\* ObjLoader.cpp:45-46: after the position index.
CornerAfterVertex(v, old) ==
    IF Peek(v.stream) = "/"
    THEN CornerAfterSlash(v.val, Get(v.stream), old)
    ELSE CornerDecremented(v.val, old.t, [stream |-> v.stream, val |-> old.n])

\* One pass of the loop at ObjLoader.cpp:43-58: reads a corner from iss into
\* slots that hold old.v, old.t, old.n before, and gives the stream after it
\* and the three indices after the decrements.
ParseCorner(iss, old) == CornerAfterVertex(ExtractNum(iss, old.v), old)

\* The loop at ObjLoader.cpp:43-58 from corner i on.
RECURSIVE ParseCorners(_, _, _)
StoreCorner(face, i, c) ==
    ParseCorners(c.stream,
                 [face EXCEPT !.vertexIndices[i] = c.v,
                              !.textureIndices[i] = c.t,
                              !.normalIndices[i] = c.n],
                 i + 1)

ParseCorners(iss, face, i) ==
    IF i > 3 THEN face
    ELSE StoreCorner(face, i,
             ParseCorner(iss, [v |-> face.vertexIndices[i],
                               t |-> face.textureIndices[i],
                               n |-> face.normalIndices[i]]))

\* ObjLoader.cpp:42-59: `Face face;` holds indeterminate indices.
ParseFace(iss, o) ==
    ParseCorners(iss,
                 [vertexIndices  |-> <<o.int, o.int, o.int>>,
                  textureIndices |-> <<o.int, o.int, o.int>>,
                  normalIndices  |-> <<o.int, o.int, o.int>>],
                 1)

\* ObjLoader.cpp:69-70: the map_Kd line's argument becomes load's local
\* textureName and, after the directory, gTextureName.
MapKd(directory, tn) ==
    [textureName |-> tn, g |-> directory \o <<"/">> \o tn]

\* ScanMtl without the `break`: the last map_Kd line of the file wins.
RECURSIVE ScanMtlNoBreak(_, _, _, _, _)
ScanMtlLineNoBreak(mtlLines, j, directory, textureName, gtn, mtlPrefix) ==
    IF mtlPrefix.val = KwMapKd
    THEN ScanMtlNoBreak(mtlLines, j + 1, directory,
             ExtractString(mtlPrefix.stream, textureName).val,
             MapKd(directory, ExtractString(mtlPrefix.stream, textureName).val).g)
    ELSE ScanMtlNoBreak(mtlLines, j + 1, directory, textureName, gtn)

ScanMtlNoBreak(mtlLines, j, directory, textureName, gtn) ==
    IF j > Len(mtlLines) THEN [textureName |-> textureName, g |-> gtn]
    ELSE ScanMtlLineNoBreak(mtlLines, j, directory, textureName, gtn,
                            ExtractString(Stream(mtlLines[j]), EmptyStr))

\* The loop at ObjLoader.cpp:64-73 from line j of the material file on.
\* textureName is load's local, gtn the global gTextureName.
RECURSIVE ScanMtl(_, _, _, _, _)
ScanMtlLine(mtlLines, j, directory, textureName, gtn, mtlPrefix) ==
    IF mtlPrefix.val = KwMapKd
    THEN MapKd(directory, ExtractString(mtlPrefix.stream, textureName).val)
    ELSE ScanMtl(mtlLines, j + 1, directory, textureName, gtn)

ScanMtl(mtlLines, j, directory, textureName, gtn) ==
    IF j > Len(mtlLines) THEN [textureName |-> textureName, g |-> gtn]
    ELSE ScanMtlLine(mtlLines, j, directory, textureName, gtn,
                     ExtractString(Stream(mtlLines[j]), EmptyStr))

\* ObjLoader.cpp:61-73: mf is mtlFilename after `iss >> mtlFilename`, m the
\* outcome of the scan of the material file.
MtllibDone(L, mf, m) ==
    [L EXCEPT !.mtlFilename = mf, !.textureName = m.textureName, !.g = m.g]

Mtllib(L, mf, directory, files) ==
    MtllibDone(L, mf,
        ScanMtl(ReadLines(files, directory \o <<"/">> \o mf),
                1, directory, L.textureName, L.g))

\* The branches of ObjLoader.cpp:29-74 on prefix, iss being the stream after
\* `iss >> prefix`.
Dispatch(L, prefix, iss, directory, files, o) ==
    CASE prefix = KwV ->
           [L EXCEPT !.vertices = Append(@, ParseVertex(iss, o))]
      [] prefix = KwVt ->
           [L EXCEPT !.textures = Append(@, ParseTexture(iss, o))]
      [] prefix = KwVn ->
           [L EXCEPT !.normals = Append(@, ParseNormal(iss, o))]
      [] prefix = KwF ->
           [L EXCEPT !.faces = Append(@, ParseFace(iss, o))]
      [] prefix = KwMtllib ->
           Mtllib(L, ExtractString(iss, L.mtlFilename).val, directory, files)
      [] OTHER -> L

ParsePrefixed(L, p, directory, files, o) ==
    Dispatch(L, p.val, p.stream, directory, files, o)

\* The body of the loop at ObjLoader.cpp:24-75 for one line.  L holds the
\* object's four vectors, load's locals mtlFilename and textureName, and the
\* global gTextureName (field g).
ParseLine(L, line, directory, files, o) ==
    ParsePrefixed(L, ExtractString(Stream(line), EmptyStr), directory, files, o)

\* LoadFrom leaving the loop one line early: the last line is never parsed.
RECURSIVE LoadFromDropsLast(_, _, _, _, _, _)
LoadFromDropsLast(L, lines, j, directory, files, o) ==
    IF j >= Len(lines) THEN L
    ELSE LoadFromDropsLast(ParseLine(L, lines[j], directory, files, o),
                           lines, j + 1, directory, files, o)

\* The loop at ObjLoader.cpp:24-75 from line j of the geometry file on.
RECURSIVE LoadFrom(_, _, _, _, _, _)
LoadFrom(L, lines, j, directory, files, o) ==
    IF j > Len(lines) THEN L
    ELSE LoadFrom(ParseLine(L, lines[j], directory, files, o),
                  lines, j + 1, directory, files, o)

\* ObjLoader::load(filename) on a fresh object, with gTextureName = gtn on
\* entry: the object's vectors and gTextureName on return.
load(filename, files, gtn, o) ==
    LoadFrom([vertices |-> <<>>, textures |-> <<>>, normals |-> <<>>,
              faces |-> <<>>, mtlFilename |-> EmptyStr,
              textureName |-> EmptyStr, g |-> gtn],
             ReadLines(files, filename), 1, Directory(filename), files, o)

\* ObjLoader.cpp:11-12: the object once load has returned m.  filename is not
\* a member; it records which file the object was built from.
LoaderOf(filename, type, m) ==
    [filename |-> filename,
     vertices |-> m.vertices, textures |-> m.textures,
     normals |-> m.normals, faces |-> m.faces,
     textureName |-> m.g, modelType |-> type]

\* ObjLoader::ObjLoader(filename, type), ObjLoader.cpp:9-13, with
\* gTextureName = gtn on entry.
NewLoader(filename, type, files, gtn, o) ==
    LoaderOf(filename, type, load(filename, files, gtn, o))

(***************************************************************************)
(* ObjLoader::getTriangles, ObjLoader.cpp:94-106.  std::vector::operator[] *)
(* does no range check: an index outside the pool is undefined behaviour,  *)
(* whose outcomes are a read of whatever lies there (junk) or a fault that *)
(* ends the process.  No outcome reports an error to the caller.           *)
(***************************************************************************)
InRange(i, pool) == 0 <= i /\ i < Len(pool)

\* pool[i] of the code (0-based), junk when i is outside the pool.
At(pool, i, junk) == IF InRange(i, pool) THEN pool[i + 1] ELSE junk

FaceInRange(ld, face) ==
    \A i \in 1..3 :
        /\ InRange(face.vertexIndices[i], ld.vertices)
        /\ InRange(face.normalIndices[i], ld.normals)
        /\ InRange(face.textureIndices[i], ld.textures)

AllInRange(ld) == \A f \in 1..Len(ld.faces) : FaceInRange(ld, ld.faces[f])

\* The Triangle built by ObjLoader.cpp:97-102 from one face.
TriangleOf(ld, face, gf) ==
    [vertices |-> [i \in 1..3 |->
                     At(ld.vertices, face.vertexIndices[i],
                        [x |-> gf, y |-> gf, z |-> gf])],
     normals  |-> [i \in 1..3 |->
                     At(ld.normals, face.normalIndices[i],
                        [nx |-> gf, ny |-> gf, nz |-> gf])],
     textures |-> [i \in 1..3 |->
                     At(ld.textures, face.textureIndices[i],
                        [u |-> gf, v |-> gf])]]

\* getTriangles walking faces from the back.
getTrianglesBackwards(ld, gf) ==
    [f \in 1..Len(ld.faces) |->
        TriangleOf(ld, ld.faces[Len(ld.faces) + 1 - f], gf)]

\* The vector getTriangles returns when it returns: one Triangle per face,
\* in the order of faces.
getTriangles(ld, gf) ==
    [f \in 1..Len(ld.faces) |-> TriangleOf(ld, ld.faces[f], gf)]

(***************************************************************************)
(* GenerateModelBufferData, main.cpp:324-382.  The GLfloat the code        *)
(* computes as base + xy*0.01f - scroll*0.004f + colour*0.003906f is the   *)
(* record of its four terms (the three float factors have no common unit); *)
(* a value pushed as it is has the three modifiers 0.                      *)
(***************************************************************************)
GLfloat(base, xy, scroll, colour) ==
    [base |-> base, xy |-> xy, scroll |-> scroll, colour |-> colour]

\* main.cpp:332-349, with g = gg, tick = t and colorOffset = c.
xModifier(ld, gg) == IF ld.modelType = 2 THEN gg.cactusPosition ELSE 0

yModifier(ld, gg) == IF ld.modelType = 1 THEN gg.currentDinoHeight ELSE 0

uModifier(ld, t) == IF ld.modelType = 3 THEN t % 125 ELSE 0

colorModifier(ld, c) == IF ld.modelType \in {1, 2} THEN c ELSE 0

\* The eight pushes with the texture coordinate ahead of the normal.
VertexDataTextureFirst(triangle, i, ld, t, c, gg) ==
    << GLfloat(triangle.vertices[i].x, xModifier(ld, gg), 0, 0),
       GLfloat(triangle.vertices[i].y, yModifier(ld, gg), 0, 0),
       GLfloat(triangle.vertices[i].z, 0, 0, 0),
       GLfloat(triangle.textures[i].u, 0, uModifier(ld, t),
               colorModifier(ld, c)),
       GLfloat(triangle.textures[i].v, 0, 0, 0),
       GLfloat(triangle.normals[i].nx, 0, 0, 0),
       GLfloat(triangle.normals[i].ny, 0, 0, 0),
       GLfloat(triangle.normals[i].nz, 0, 0, 0) >>

\* main.cpp:355-366: the eight pushes for vertex i of a triangle.
VertexData(triangle, i, ld, t, c, gg) ==
    << GLfloat(triangle.vertices[i].x, xModifier(ld, gg), 0, 0),
       GLfloat(triangle.vertices[i].y, yModifier(ld, gg), 0, 0),
       GLfloat(triangle.vertices[i].z, 0, 0, 0),
       GLfloat(triangle.normals[i].nx, 0, 0, 0),
       GLfloat(triangle.normals[i].ny, 0, 0, 0),
       GLfloat(triangle.normals[i].nz, 0, 0, 0),
       GLfloat(triangle.textures[i].u, 0, uModifier(ld, t),
               colorModifier(ld, c)),
       GLfloat(triangle.textures[i].v, 0, 0, 0) >>

\* main.cpp:354-367: the loop over the three vertices of a triangle.
TriangleData(triangle, ld, t, c, gg) ==
    VertexData(triangle, 1, ld, t, c, gg)
    \o VertexData(triangle, 2, ld, t, c, gg)
    \o VertexData(triangle, 3, ld, t, c, gg)

\* main.cpp:352-368: the loop over mesh, from triangle f on.
RECURSIVE MeshData(_, _, _, _, _, _)
MeshData(mesh, f, ld, t, c, gg) ==
    IF f > Len(mesh) THEN <<>>
    ELSE TriangleData(mesh[f], ld, t, c, gg)
         \o MeshData(mesh, f + 1, ld, t, c, gg)

\* main.cpp:328-369: the loop over loaders, from loader k on, when every
\* getTriangles call returns; vertexDataFloor at main.cpp:374.
RECURSIVE GenerateModelBufferData(_, _, _, _, _, _)
GenerateModelBufferData(lds, k, t, c, gg, gf) ==
    IF k > Len(lds) THEN <<>>
    ELSE MeshData(getTriangles(lds[k], gf), 1, lds[k], t, c, gg)
         \o GenerateModelBufferData(lds, k + 1, t, c, gg, gf)

(***************************************************************************)
(* The files.  Line joins words with single blanks.                        *)
(***************************************************************************)
RECURSIVE Line(_)
Line(words) ==
    IF Len(words) = 0 THEN <<>>
    ELSE IF Len(words) = 1 THEN words[1]
    ELSE words[1] \o <<" ">> \o Line(Tail(words))

\* The corner texts i, i/t, i//n and i/t/n.
CornerV(p) == <<p>>
CornerVT(p, t) == <<p, "/", t>>
CornerVN(p, n) == <<p, "/", "/", n>>
CornerVTN(p, t, n) == <<p, "/", t, "/", n>>

\* Three positions, three texture coordinates, three normals.
Pools ==
    << Line(<<KwV, <<"1">>, <<"2">>, <<"3">> >>),
       Line(<<KwV, <<"4">>, <<"5">>, <<"6">> >>),
       Line(<<KwV, <<"7">>, <<"8">>, <<"9">> >>),
       Line(<<KwVt, <<"1">>, <<"2">> >>),
       Line(<<KwVt, <<"3">>, <<"4">> >>),
       Line(<<KwVt, <<"5">>, <<"6">> >>),
       Line(<<KwVn, <<"1">>, <<"0">>, <<"0">> >>),
       Line(<<KwVn, <<"0">>, <<"1">>, <<"0">> >>),
       Line(<<KwVn, <<"0">>, <<"0">>, <<"1">> >>) >>

FaceFwd == Line(<<KwF, CornerVTN("1", "1", "1"), CornerVTN("2", "2", "2"),
                  CornerVTN("3", "3", "3")>>)
FaceRev == Line(<<KwF, CornerVTN("3", "3", "3"), CornerVTN("2", "2", "2"),
                  CornerVTN("1", "1", "1")>>)
FaceV == Line(<<KwF, CornerV("1"), CornerV("2"), CornerV("3")>>)
FaceVT == Line(<<KwF, CornerVT("1", "1"), CornerVT("2", "2"),
                 CornerVT("3", "3")>>)
FaceVN == Line(<<KwF, CornerVN("1", "1"), CornerVN("2", "2"),
                 CornerVN("3", "3")>>)
\* 5/3/2: position 5 of a pool of three.
Face532 == Line(<<KwF, CornerVTN("5", "3", "2"), CornerVTN("1", "1", "1"),
                  CornerVTN("2", "2", "2")>>)
FaceTwoCorners == Line(<<KwF, CornerVTN("1", "1", "1"),
                         CornerVTN("2", "2", "2")>>)
FaceBadIndex == Line(<<KwF, CornerVTN("1", "1", "1"), <<"x">>,
                       CornerVTN("3", "3", "3")>>)
VertexOk == Line(<<KwV, <<"1", "0">>, <<"2">>, <<"3">> >>)
VertexShort == Line(<<KwV, <<"4">>, <<"5">> >>)
VertexBad == Line(<<KwV, <<"1">>, <<"x">>, <<"3">> >>)
TextureOk == Line(<<KwVt, <<"7">>, <<"8">> >>)
Comment == Line(<< <<"#">>, <<"c">> >>)
MtllibM == Line(<<KwMtllib, <<"m">> >>)
MtllibQ == Line(<<KwMtllib, <<"q">> >>)
MtllibU == Line(<<KwMtllib, <<"u">> >>)
MtllibN == Line(<<KwMtllib, <<"n">> >>)
MtllibR == Line(<<KwMtllib, <<"r">> >>)

\* The material files: a/m and b/m name a texture twice, a/q after another
\* line, a/r never, a/u without an argument; a/n does not exist.
Materials ==
    (<<"a", "/", "m">> :> << Line(<<KwMapKd, <<"w">> >>),
                            Line(<<KwMapKd, <<"x">> >>) >>)
    @@ (<<"a", "/", "q">> :> << Line(<< <<"n", "e", "w", "m", "t", "l">>,
                                        <<"s">> >>),
                               Line(<<KwMapKd, <<"y">> >>) >>)
    @@ (<<"a", "/", "r">> :> << Line(<< <<"n", "e", "w", "m", "t", "l">>,
                                        <<"s">> >>) >>)
    @@ (<<"a", "/", "u">> :> << KwMapKd >>)
    @@ (<<"b", "/", "m">> :> << Line(<<KwMapKd, <<"z">> >>) >>)

\* The geometry files of Spec: a/c and b/h with a texture, b/d without a
\* mtllib line, a/e naming the missing a/n, a/k naming a/r; a/z does not
\* exist.  b/h has a face outside its pools.
ObjC == <<"a", "/", "c">>
ObjD == <<"b", "/", "d">>
ObjE == <<"a", "/", "e">>
ObjK == <<"a", "/", "k">>
ObjH == <<"b", "/", "h">>
ObjZ == <<"a", "/", "z">>

BaseFS ==
    Materials
    @@ (ObjC :> <<MtllibM>> \o Pools \o <<FaceFwd>>)
    @@ (ObjD :> Pools \o <<FaceRev>>)
    @@ (ObjE :> <<MtllibN, VertexOk>>)
    @@ (ObjK :> <<VertexOk, MtllibR>>)
    @@ (ObjH :> Pools \o <<MtllibM, Face532>>)

Paths == {ObjC, ObjD, ObjE, ObjK, ObjH, ObjZ}

\* The generated geometry file of SpecParse: a header followed by up to
\* MaxTail lines of Catalogue, in every order.
GenPath == <<"a", "/", "g">>

Catalogue ==
    {VertexOk, VertexShort, VertexBad, TextureOk,
     FaceFwd, FaceRev, FaceV, FaceVT, FaceVN, Face532,
     FaceTwoCorners, FaceBadIndex, Comment, MtllibM, MtllibQ, MtllibU}

Headers == {<<>>, Pools}

Tails == UNION {[1..n -> Catalogue] : n \in 0..MaxTail}

GenFS(header, tail) == Materials @@ (GenPath :> header \o tail)

\* The files main.cpp loads every frame (main.cpp:401-416) and the material
\* files beside them.
BgPath ==
    <<".", "/", "c", "o", "m", "m", "o", "n", "/", "o", "b", "j", "e", "c",
      "t", "s", "/", "b", "g", ".", "o", "b", "j">>

BgNightPath ==
    <<".", "/", "c", "o", "m", "m", "o", "n", "/", "o", "b", "j", "e", "c",
      "t", "s", "/", "b", "g", "_", "n", "i", "g", "h", "t", ".", "o", "b",
      "j">>

DinoPath ==
    <<".", "/", "c", "o", "m", "m", "o", "n", "/", "o", "b", "j", "e", "c",
      "t", "s", "/", "d", "i", "n", "o", ".", "o", "b", "j">>

Dino2Path ==
    <<".", "/", "c", "o", "m", "m", "o", "n", "/", "o", "b", "j", "e", "c",
      "t", "s", "/", "d", "i", "n", "o", "2", ".", "o", "b", "j">>

CactusPath ==
    <<".", "/", "c", "o", "m", "m", "o", "n", "/", "o", "b", "j", "e", "c",
      "t", "s", "/", "c", "a", "c", "t", "u", "s", ".", "o", "b", "j">>

GameMaterialM ==
    <<".", "/", "c", "o", "m", "m", "o", "n", "/", "o", "b", "j", "e", "c",
      "t", "s", "/", "m">>

GameMaterialQ ==
    <<".", "/", "c", "o", "m", "m", "o", "n", "/", "o", "b", "j", "e", "c",
      "t", "s", "/", "q">>

\* A working directory with the five geometry files: both backgrounds name a
\* material with a texture, the dino and the cactus name none, and dino2.obj
\* has a face outside its pools.
GameFS ==
    (GameMaterialM :> << Line(<<KwMapKd, <<"w">> >>) >>)
    @@ (GameMaterialQ :> << Line(<<KwMapKd, <<"y">> >>) >>)
    @@ (BgPath :> <<MtllibM>> \o Pools \o <<FaceFwd>>)
    @@ (BgNightPath :> <<MtllibQ>> \o Pools \o <<FaceFwd>>)
    @@ (DinoPath :> Pools \o <<FaceFwd>>)
    @@ (Dino2Path :> Pools \o <<Face532>>)
    @@ (CactusPath :> Pools \o <<FaceFwd, FaceRev>>)

\* A working directory without the directory common/objects.
NoFiles == <<>>

\* The modelType values main.cpp passes (main.cpp:405-416); the loader it
\* constructs first is the background, of type 3.
ModelTypes == {1, 2, 3}

BackgroundType == 3

(***************************************************************************)
(* The state machine.                                                      *)
(***************************************************************************)
NoCall == [loader |-> 0, status |-> "none", triangles |-> <<>>]

\* The globals of main.cpp as their initialisers leave them (main.cpp:68-101,
\* globals.hpp), MainLoop about to call Input for the first time.
GameStart ==
    /\ vertexDataFloor = <<>>
    /\ gDebug = FALSE
    /\ tick = 0
    /\ dayTick = 0
    /\ isJumping = FALSE
    /\ jumpingUp = TRUE
    /\ gameOver = FALSE
    /\ cactusSpeed = 5
    /\ jumpingSpeed = 4
    /\ cactusStart = 400
    /\ colorOffset = 0
    /\ isDaytime = TRUE
    /\ g = [currentDinoHeight |-> 0, cactusPosition |-> 400]
    /\ jumpPeak = 0
    /\ pc = "Input"

Init ==
    /\ fs = BaseFS
    /\ gTextureName = EmptyStr
    /\ loaders = <<>>
    /\ ret = NoCall
    /\ GameStart

InitParse ==
    /\ \E header \in Headers, tail \in Tails : fs = GenFS(header, tail)
    /\ gTextureName = EmptyStr
    /\ loaders = <<>>
    /\ ret = NoCall
    /\ GameStart

\* ObjLoader loader(filename, type).
Construct(filename, type, o) ==
    /\ ret.status # "fault"
    /\ Len(loaders) < MaxLoaders
    /\ loaders' = Append(loaders, NewLoader(filename, type, fs, gTextureName, o))
    /\ gTextureName' = loaders'[Len(loaders')].textureName
    /\ UNCHANGED <<fs, ret, vertexDataFloor, game, pc>>

\* The first ObjLoader of a process (main.cpp:405), on the generated file.
ConstructFirst(o) ==
    /\ loaders = <<>>
    /\ Construct(GenPath, BackgroundType, o)

\* loaders[k].getTriangles() returning to its caller.
GetTriangles(k, gf) ==
    /\ ret.status # "fault"
    /\ k \in 1..Len(loaders)
    /\ ret' = [loader |-> k, status |-> "returned",
               triangles |-> getTriangles(loaders[k], gf)]
    /\ UNCHANGED <<fs, gTextureName, loaders, vertexDataFloor, game, pc>>

\* loaders[k].getTriangles() reading outside a pool and faulting.
GetTrianglesFault(k) ==
    /\ ret.status # "fault"
    /\ k \in 1..Len(loaders)
    /\ ~AllInRange(loaders[k])
    /\ ret' = [loader |-> k, status |-> "fault", triangles |-> <<>>]
    /\ UNCHANGED <<fs, gTextureName, loaders, vertexDataFloor, game, pc>>

\* GenerateModelBufferData(loaders) running to its end (main.cpp:324-382):
\* every getTriangles call returns, the last of them for the last loader.
GenerateBuffer(gf) ==
    /\ ret.status # "fault"
    /\ vertexDataFloor' =
           GenerateModelBufferData(loaders, 1, tick, colorOffset, g, gf)
    /\ ret' = IF loaders = <<>> THEN ret
              ELSE [loader |-> Len(loaders), status |-> "returned",
                    triangles |-> getTriangles(loaders[Len(loaders)], gf)]
    /\ UNCHANGED <<fs, gTextureName, loaders, game, pc>>

\* GenerateModelBufferData(loaders) faulting in the getTriangles call of
\* main.cpp:330 for loader k: glBufferData is not reached.
GenerateBufferFault(k) ==
    /\ ret.status # "fault"
    /\ k \in 1..Len(loaders)
    /\ ~AllInRange(loaders[k])
    /\ ret' = [loader |-> k, status |-> "fault", triangles |-> <<>>]
    /\ UNCHANGED <<fs, gTextureName, loaders, vertexDataFloor, game, pc>>

Next ==
    \/ \E filename \in Paths, type \in ModelTypes, o \in Oracles :
           Construct(filename, type, o)
    \/ \E k \in 1..MaxLoaders, gf \in GarbageFloat : GetTriangles(k, gf)
    \/ \E k \in 1..MaxLoaders : GetTrianglesFault(k)

NextParse ==
    \/ \E o \in Oracles : ConstructFirst(o)
    \/ \E k \in 1..MaxLoaders, gf \in GarbageFloat : GetTriangles(k, gf)
    \/ \E k \in 1..MaxLoaders : GetTrianglesFault(k)

Spec == Init /\ [][Next]_vars

SpecParse == InitParse /\ [][NextParse]_vars

\* Loaders of the files of BufferPaths handed to GenerateModelBufferData.
BufferPaths == {ObjC, ObjD, ObjH, ObjZ}

NextBuffer ==
    \/ \E filename \in BufferPaths, type \in ModelTypes, o \in Oracles :
           Construct(filename, type, o)
    \/ \E gf \in GarbageFloat : GenerateBuffer(gf)
    \/ \E k \in 1..MaxLoaders : GenerateBufferFault(k)

SpecBuffer == Init /\ [][NextBuffer]_vars

(***************************************************************************)
(* The game: MainLoop, main.cpp:696-762, one iteration being Input() and,  *)
(* unless the game is over, the body of main.cpp:698-761.  The model       *)
(* follows the loop while gQuit is false and leaves out the camera and the *)
(* polygon mode, which the keys W, A, S, D and TAB and the mouse change in *)
(* debug mode and which no game variable depends on.                       *)
(***************************************************************************)

\* The keys Input reads that change the game's globals; the keyboard state
\* of a frame is a set of them.
GameKeyNames == {"R", "SPACE", "0", "1", "2", "3", "4", "T"}

\* main.cpp:626: isJumping once the R branch is past.
JumpingAfterRestart(keys) == IF "R" \in keys THEN FALSE ELSE isJumping

\* main.cpp:629: the SPACE branch is taken.
JumpStarts(keys) == "SPACE" \in keys /\ ~JumpingAfterRestart(keys)

\* main.cpp:633-647: five ifs in a row, the last one taken decides.
ColorAfter(keys) ==
    IF "4" \in keys THEN 4
    ELSE IF "3" \in keys THEN 3
    ELSE IF "2" \in keys THEN 2
    ELSE IF "1" \in keys THEN 1
    ELSE IF "0" \in keys THEN 0
    ELSE colorOffset

\* Input(), main.cpp:568-676, with the keyboard state keys.
Input(keys) ==
    /\ pc = "Input"
    /\ dayTick' = IF "R" \in keys THEN 0 ELSE dayTick
    /\ isDaytime' = IF "R" \in keys THEN TRUE ELSE isDaytime
    /\ tick' = IF "R" \in keys THEN 0 ELSE tick
    /\ gameOver' = IF "R" \in keys THEN FALSE ELSE gameOver
    /\ cactusSpeed' = IF "R" \in keys THEN 5 ELSE cactusSpeed
    /\ jumpingSpeed' = IF "R" \in keys THEN 4 ELSE jumpingSpeed
    /\ isJumping' = (JumpingAfterRestart(keys) \/ "SPACE" \in keys)
    /\ g' = [currentDinoHeight |->
                 IF JumpStarts(keys) THEN 1
                 ELSE IF "R" \in keys THEN 0 ELSE g.currentDinoHeight,
             cactusPosition |->
                 IF "R" \in keys THEN 400 ELSE g.cactusPosition]
    /\ jumpPeak' = IF JumpStarts(keys) THEN 1 ELSE jumpPeak
    /\ colorOffset' = ColorAfter(keys)
    /\ gDebug' = IF "T" \in keys THEN ~gDebug ELSE gDebug
    /\ pc' = IF gameOver' THEN "Input" ELSE "Body"
    /\ UNCHANGED <<fs, gTextureName, loaders, ret, vertexDataFloor,
                   jumpingUp, cactusStart>>

\* main.cpp:399-416: the files VertexSpecification loads.
BackgroundPath == IF isDaytime THEN BgPath ELSE BgNightPath

DinoName == IF tick % 30 < 15 THEN Dino2Path ELSE DinoPath

\* main.cpp:405-418: loader1, loader2 and loader3, each constructed with the
\* gTextureName the one before it left.
WithLoader3(loader1, loader2, o) ==
    <<loader1, loader2,
      NewLoader(CactusPath, 2, fs, loader2.textureName, o)>>

WithLoader2(loader1, o) ==
    WithLoader3(loader1, NewLoader(DinoName, 1, fs, loader1.textureName, o), o)

VertexSpecificationLoaders(o) ==
    WithLoader2(NewLoader(BackgroundPath, BackgroundType, fs, gTextureName, o),
                o)

\* rand() % n: rand() is any int from 0 to RAND_MAX, which is at least
\* 32767, so every remainder below n comes out; the model draws the least
\* and the greatest.
RandPicks == {"least", "greatest"}

RandMod(n, pick) == IF pick = "least" THEN 0 ELSE n - 1

\* main.cpp:720-728.
DayLength == 1000

DayChanges == dayTick + 1 = DayLength

CactusSpeedAfterDay == IF DayChanges THEN cactusSpeed + 2 ELSE cactusSpeed

JumpingSpeedAfterDay == IF DayChanges THEN jumpingSpeed + 2 ELSE jumpingSpeed

\* main.cpp:730-733.
MovedPosition == g.cactusPosition - CactusSpeedAfterDay

Respawns == MovedPosition <= -(cactusStart * 2)

\* main.cpp:740-747: g.currentDinoHeight after the jump logic.
HeightAfterJump ==
    IF ~isJumping THEN g.currentDinoHeight
    ELSE IF jumpingUp THEN g.currentDinoHeight + JumpingSpeedAfterDay
    ELSE g.currentDinoHeight - JumpingSpeedAfterDay

\* main.cpp:757: the collision test on the values the frame has computed.
Collides(height, position) ==
    height < 75 /\ position <= -100 /\ position >= -150 /\ ~gDebug

\* The body of the loop when the game is not over, main.cpp:698-761, with
\* the two rand() results of main.cpp:734-735 picked by ra and rb, the
\* indeterminate values the loaders read by o and the junk getTriangles
\* reads by gf.  The loaders are locals of VertexSpecification, gone at its
\* return; what stays is gTextureName and the buffer handed to OpenGL.
\* limit bounds tick.
MainLoopBody(limit, ra, rb, o, gf) ==
    /\ pc = "Body"
    /\ tick < limit
    /\ gTextureName' = VertexSpecificationLoaders(o)[3].textureName
    /\ vertexDataFloor' =
           GenerateModelBufferData(VertexSpecificationLoaders(o), 1,
                                   tick, colorOffset, g, gf)
    /\ tick' = tick + 1
    /\ dayTick' = IF DayChanges THEN 0 ELSE dayTick + 1
    /\ isDaytime' = IF DayChanges THEN ~isDaytime ELSE isDaytime
    /\ jumpingSpeed' = JumpingSpeedAfterDay
    /\ cactusStart' = IF Respawns THEN RandMod(500, ra) + 400
                      ELSE cactusStart
    /\ cactusSpeed' = IF Respawns THEN RandMod(CactusSpeedAfterDay, rb) + 6
                      ELSE CactusSpeedAfterDay
    /\ g' = [currentDinoHeight |-> HeightAfterJump,
             cactusPosition |->
                 IF Respawns THEN cactusStart' ELSE MovedPosition]
    /\ jumpingUp' = IF ~isJumping THEN jumpingUp
                    ELSE IF jumpingUp THEN ~(HeightAfterJump >= 152)
                    ELSE HeightAfterJump <= 0
    /\ isJumping' = (isJumping /\ (jumpingUp \/ ~(HeightAfterJump <= 0)))
    /\ jumpPeak' = IF isJumping /\ HeightAfterJump > jumpPeak
                   THEN HeightAfterJump ELSE jumpPeak
    /\ gameOver' = Collides(g'.currentDinoHeight, g'.cactusPosition)
    /\ pc' = "Input"
    /\ UNCHANGED <<fs, loaders, ret, gDebug, colorOffset>>

\* The body ending in a fault: one of the three getTriangles calls of
\* main.cpp:330 reads outside a pool and the process dies.
MainLoopBodyFault(o) ==
    /\ pc = "Body"
    /\ \E k \in 1..3 : ~AllInRange(VertexSpecificationLoaders(o)[k])
    /\ pc' = "Fault"
    /\ UNCHANGED <<fs, gTextureName, loaders, ret, vertexDataFloor, game>>

\* The game started in a working directory without common/objects: every
\* load of every frame finds no file and builds an empty model (the game's
\* globals depend on no file).
InitGame ==
    /\ fs = NoFiles
    /\ gTextureName = EmptyStr
    /\ loaders = <<>>
    /\ ret = NoCall
    /\ GameStart

\* Frames of one pass of the cactus, with the keys that restart, jump and
\* switch debug mode, and one colour key.
MaxGameTick == 100

GameKeys == (SUBSET {"R", "SPACE", "T"}) \cup {{"2"}}

NextGame ==
    \/ \E keys \in GameKeys : Input(keys)
    \/ \E ra \in RandPicks, rb \in RandPicks, o \in Oracles,
          gf \in GarbageFloat : MainLoopBody(MaxGameTick, ra, rb, o, gf)

SpecGame == InitGame /\ [][NextGame]_vars

\* Frames of a day and of the passes of the cactus in it, with the key that
\* switches debug mode.  Without a file no load reads an indeterminate
\* value and no getTriangles reads a pool, so one oracle stands for all.
MaxDayTick == 1000

DayKeys == {{}, {"T"}}

NoJunk == [int |-> 0, float |-> 0]

NextDay ==
    \/ \E keys \in DayKeys : Input(keys)
    \/ \E ra \in RandPicks, rb \in RandPicks :
           MainLoopBody(MaxDayTick, ra, rb, NoJunk, NoJunk.float)

SpecDay == InitGame /\ [][NextDay]_vars

\* The first frames of a game started in a working directory with the five
\* geometry files, every frame loading and assembling three of them.
InitFrame ==
    /\ fs = GameFS
    /\ gTextureName = EmptyStr
    /\ loaders = <<>>
    /\ ret = NoCall
    /\ GameStart

MaxFrameTick == 2

FrameKeys == {{}, {"SPACE"}, {"4"}}

NextFrame ==
    \/ \E keys \in FrameKeys : Input(keys)
    \/ \E ra \in RandPicks, rb \in RandPicks, o \in Oracles,
          gf \in GarbageFloat : MainLoopBody(MaxFrameTick, ra, rb, o, gf)
    \/ \E o \in Oracles : MainLoopBodyFault(o)

SpecFrame == InitFrame /\ [][NextFrame]_vars

(***************************************************************************)
(* Reading a file's text directly, for stating the properties: the words   *)
(* of a line, the segments of a face corner, the numbers they write.       *)
(***************************************************************************)
RECURSIVE SplitOn(_, _)
SplitOn(s, sep) ==
    IF s = <<>> THEN << <<>> >>
    ELSE LET rest == SplitOn(Tail(s), sep)
         IN  IF Head(s) = sep
             THEN << <<>> >> \o rest
             ELSE << <<Head(s)>> \o Head(rest) >> \o Tail(rest)

WordsOf(line) == SelectSeq(SplitOn(line, " "), LAMBDA w : w # <<>>)

Leading(line) ==
    LET w == WordsOf(line) IN IF w = <<>> THEN <<>> ELSE w[1]

LinesWith(lines, kw) == SelectSeq(lines, LAMBDA l : Leading(l) = kw)

IsNumber(w) == w # <<>> /\ \A i \in 1..Len(w) : IsDigit(w[i])

NumberOf(w) == NumVal(w, 1, Len(w) + 1)

\* A line with at least n numbers after its keyword.
HasNumbers(line, n) ==
    LET w == WordsOf(line)
    IN  Len(w) >= n + 1 /\ \A i \in 2..(n + 1) : IsNumber(w[i])

\* One of the corner texts i, i/t, i//n, i/t/n.
IsCorner(w) ==
    LET seg == SplitOn(w, "/")
    IN  /\ Len(seg) \in 1..3
        /\ IsNumber(seg[1])
        /\ Len(seg) = 2 => IsNumber(seg[2])
        /\ Len(seg) = 3 => (seg[2] = <<>> \/ IsNumber(seg[2])) /\ IsNumber(seg[3])

HasTexture(w) ==
    LET seg == SplitOn(w, "/") IN Len(seg) >= 2 /\ seg[2] # <<>>

HasNormal(w) == Len(SplitOn(w, "/")) = 3

\* An f line with three well-formed corners.
IsFaceLine(line) ==
    LET w == WordsOf(line)
    IN  Len(w) >= 4 /\ \A i \in 2..4 : IsCorner(w[i])

\* A corner of the line lacks its texture or its normal index.
HasPartialCorner(line) ==
    /\ IsFaceLine(line)
    /\ LET w == WordsOf(line)
       IN  \E i \in 2..4 : ~HasTexture(w[i]) \/ ~HasNormal(w[i])

IsMalformed(line) ==
    LET kw == Leading(line)
    IN  \/ kw \in {KwV, KwVn} /\ ~HasNumbers(line, 3)
        \/ kw = KwVt /\ ~HasNumbers(line, 2)
        \/ kw = KwF /\ ~IsFaceLine(line)

\* The material file at path is readable and its first map_Kd line names a
\* texture.
Textured(files, path) ==
    /\ path \in DOMAIN files
    /\ LinesWith(files[path], KwMapKd) # <<>>
    /\ Len(WordsOf(LinesWith(files[path], KwMapKd)[1])) >= 2

FirstMapKd(files, path) == WordsOf(LinesWith(files[path], KwMapKd)[1])[2]

\* The material path a mtllib line of the geometry file filename names.
MtlPath(filename, line) ==
    Directory(filename) \o <<"/">>
        \o (IF Len(WordsOf(line)) >= 2 THEN WordsOf(line)[2] ELSE <<>>)

\* The geometry file has no mtllib line whose material file is readable and
\* has a map_Kd line.
MissingMaterial(files, filename) ==
    \A j \in 1..Len(files[filename]) :
        Leading(files[filename][j]) = KwMtllib =>
            LET path == MtlPath(filename, files[filename][j])
            IN  path \notin DOMAIN files \/ LinesWith(files[path], KwMapKd) = <<>>

\* Some index of some face is not less than the size of its pool.
SomeIndexTooBig(ld) ==
    \E f \in 1..Len(ld.faces), i \in 1..3 :
        \/ ld.faces[f].vertexIndices[i] >= Len(ld.vertices)
        \/ ld.faces[f].normalIndices[i] >= Len(ld.normals)
        \/ ld.faces[f].textureIndices[i] >= Len(ld.textures)

(***************************************************************************)
(* The claims.                                                             *)
(***************************************************************************)

\* C1 (as claimed): after constructions over distinct geometry files, every
\* loader's pools, faces and texture path are those of a construction on
\* that file alone in a fresh process (gTextureName empty).
C1_Isolation ==
    (\A i, j \in 1..Len(loaders) :
        i # j => loaders[i].filename # loaders[j].filename)
    => \A k \in 1..Len(loaders) :
           \E o \in Oracles :
               loaders[k] = NewLoader(loaders[k].filename, loaders[k].modelType,
                                      fs, EmptyStr, o)

\* C2 (as claimed): a loader built from a readable geometry file with no
\* mtllib line, or whose mtllib names a material file that is missing or has
\* no map_Kd line, has the empty texture path, whatever was built before.
C2_MissingMaterialEmpty ==
    \A k \in 1..Len(loaders) :
        (loaders[k].filename \in DOMAIN fs /\ MissingMaterial(fs, loaders[k].filename))
        => loaders[k].textureName = EmptyStr

\* C3 (as claimed): getTriangles on a loader with an index not less than its
\* pool's size ends with an addressing error and no triangles.
C3_OutOfRangeRejected ==
    (ret.status # "none" /\ SomeIndexTooBig(loaders[ret.loader]))
    => (ret.status = "AddressingError" /\ ret.triangles = <<>>)

\* C4 (as claimed): getTriangles on a loader whose file has a face corner
\* written i, i/t or i//n ends with an addressing error.
C4_AbsentSlotRejected ==
    (/\ ret.status # "none"
     /\ \E j \in 1..Len(ReadLines(fs, loaders[ret.loader].filename)) :
            LET line == ReadLines(fs, loaders[ret.loader].filename)[j]
            IN  Leading(line) = KwF /\ HasPartialCorner(line))
    => ret.status = "AddressingError"

\* C5: a loader's position, texture and normal pools and its face list have
\* as many entries as its file has lines led by v, vt, vn and f, and the
\* j-th entry of a pool holds the numbers of the j-th such line.
C5_PoolSizes ==
    \A k \in 1..Len(loaders) :
        LET ld == loaders[k]
            lines == ReadLines(fs, ld.filename)
            vs == LinesWith(lines, KwV)
            ts == LinesWith(lines, KwVt)
            ns == LinesWith(lines, KwVn)
        IN  /\ Len(ld.vertices) = Len(vs)
            /\ Len(ld.textures) = Len(ts)
            /\ Len(ld.normals) = Len(ns)
            /\ Len(ld.faces) = Len(LinesWith(lines, KwF))
            /\ \A j \in 1..Len(vs) :
                   LET w == WordsOf(vs[j])
                   IN  HasNumbers(vs[j], 3) =>
                           ld.vertices[j] = [x |-> NumberOf(w[2]),
                                             y |-> NumberOf(w[3]),
                                             z |-> NumberOf(w[4])]
            /\ \A j \in 1..Len(ts) :
                   LET w == WordsOf(ts[j])
                   IN  HasNumbers(ts[j], 2) =>
                           ld.textures[j] = [u |-> NumberOf(w[2]),
                                             v |-> NumberOf(w[3])]
            /\ \A j \in 1..Len(ns) :
                   LET w == WordsOf(ns[j])
                   IN  HasNumbers(ns[j], 3) =>
                           ld.normals[j] = [nx |-> NumberOf(w[2]),
                                            ny |-> NumberOf(w[3]),
                                            nz |-> NumberOf(w[4])]

\* C5 witness: a file with a face line between its position lines was
\* parsed: four positions, the last one from the line after the face.
C5_Witness ==
    /\ Len(loaders) = 1
    /\ Len(fs[GenPath]) = 11
    /\ fs[GenPath][10] = FaceFwd
    /\ fs[GenPath][11] = VertexOk
    /\ Len(loaders[1].vertices) = 4
    /\ loaders[1].vertices[4] = [x |-> 10, y |-> 2, z |-> 3]
    /\ Len(loaders[1].faces) = 1

\* C6: the j-th face of a loader, when the j-th f line of its file has three
\* corners of the shapes i, i/t, i//n, i/t/n, stores for each corner the
\* position index i-1, and t-1 and n-1 for the indices the corner writes.
C6_IndexConversion ==
    \A k \in 1..Len(loaders) :
        LET ld == loaders[k]
            fl == LinesWith(ReadLines(fs, ld.filename), KwF)
        IN  \A j \in 1..Len(fl) :
                IsFaceLine(fl[j]) =>
                    /\ j <= Len(ld.faces)
                    /\ \A i \in 1..3 :
                           LET w == WordsOf(fl[j])[i + 1]
                               seg == SplitOn(w, "/")
                           IN  /\ ld.faces[j].vertexIndices[i] = NumberOf(seg[1]) - 1
                               /\ HasTexture(w) =>
                                      ld.faces[j].textureIndices[i] = NumberOf(seg[2]) - 1
                               /\ HasNormal(w) =>
                                      ld.faces[j].normalIndices[i] = NumberOf(seg[3]) - 1

\* C6 witness: the line `f 5/3/2 1/1/1 2/2/2` was parsed into a face whose
\* first corner is 4, 2, 1.
C6_Witness ==
    /\ Len(loaders) = 1
    /\ \E j \in 1..Len(fs[GenPath]) : fs[GenPath][j] = Face532
    /\ \E f \in 1..Len(loaders[1].faces) :
           loaders[1].faces[f] = [vertexIndices  |-> <<4, 0, 1>>,
                                  textureIndices |-> <<2, 0, 1>>,
                                  normalIndices  |-> <<1, 0, 1>>]

\* C7: when getTriangles returns for a loader all of whose indices are inside
\* the pools, it returns one triangle per face, the f-th built from the f-th
\* face, its i-th vertex, normal and texture coordinate being the pool
\* entries the face's i-th corner names.
C7_OrderPreserved ==
    (ret.status = "returned" /\ AllInRange(loaders[ret.loader]))
    => LET ld == loaders[ret.loader]
       IN  /\ Len(ret.triangles) = Len(ld.faces)
           /\ \A f \in 1..Len(ld.faces), i \in 1..3 :
                  /\ ret.triangles[f].vertices[i]
                         = ld.vertices[ld.faces[f].vertexIndices[i] + 1]
                  /\ ret.triangles[f].normals[i]
                         = ld.normals[ld.faces[f].normalIndices[i] + 1]
                  /\ ret.triangles[f].textures[i]
                         = ld.textures[ld.faces[f].textureIndices[i] + 1]

\* C7 witness: getTriangles returned two triangles for the faces
\* `f 1/1/1 2/2/2 3/3/3` and `f 3/3/3 2/2/2 1/1/1`, each the reverse of the
\* other.
C7_Witness ==
    /\ ret.status = "returned"
    /\ AllInRange(loaders[ret.loader])
    /\ Len(ret.triangles) = 2
    /\ ret.triangles[1].vertices[1] # ret.triangles[1].vertices[3]
    /\ \A i \in 1..3 :
           /\ ret.triangles[1].vertices[i] = ret.triangles[2].vertices[4 - i]
           /\ ret.triangles[1].normals[i] = ret.triangles[2].normals[4 - i]
           /\ ret.triangles[1].textures[i] = ret.triangles[2].textures[4 - i]

\* C8 (as claimed): for every mtllib line of a loader's file whose material
\* file is readable and names a texture p in its first map_Kd line, the
\* loader's texture path is <dir>/p.
C8_AnyMtllib ==
    \A k \in 1..Len(loaders) :
        LET fn == loaders[k].filename
            ml == LinesWith(ReadLines(fs, fn), KwMtllib)
        IN  \A j \in 1..Len(ml) :
                Textured(fs, MtlPath(fn, ml[j])) =>
                    loaders[k].textureName
                        = Directory(fn) \o <<"/">> \o FirstMapKd(fs, MtlPath(fn, ml[j]))

\* C8 (amended): the texture path is <dir>/p for the last mtllib line of the
\* file whose material file is readable and names a texture p in its first
\* map_Kd line; later map_Kd lines of that material file do not count.
C8_LastMtllib ==
    \A k \in 1..Len(loaders) :
        LET fn == loaders[k].filename
            ml == LinesWith(ReadLines(fs, fn), KwMtllib)
        IN  \A j \in 1..Len(ml) :
                (/\ Textured(fs, MtlPath(fn, ml[j]))
                 /\ \A h \in (j + 1)..Len(ml) : ~Textured(fs, MtlPath(fn, ml[h])))
                => loaders[k].textureName
                       = Directory(fn) \o <<"/">> \o FirstMapKd(fs, MtlPath(fn, ml[j]))

\* C8 witness: a file naming a/m, whose two map_Kd lines name w and x, was
\* parsed and its texture path is a/w.
C8_Witness ==
    /\ Len(loaders) = 1
    /\ \E j \in 1..Len(fs[GenPath]) : fs[GenPath][j] = MtllibM
    /\ \A j \in 1..Len(fs[GenPath]) :
           Leading(fs[GenPath][j]) = KwMtllib => fs[GenPath][j] = MtllibM
    /\ loaders[1].textureName = <<"a", "/", "w">>

\* C9 (as claimed): no loader exists for a geometry file with a malformed v,
\* vt, vn or f line.
C9_MalformedAborts ==
    \A k \in 1..Len(loaders) :
        \A j \in 1..Len(ReadLines(fs, loaders[k].filename)) :
            ~IsMalformed(ReadLines(fs, loaders[k].filename)[j])

\* C10 (as claimed): no loader exists for a path that cannot be opened.
C10_UnreadableIsError ==
    \A k \in 1..Len(loaders) : loaders[k].filename \in DOMAIN fs

\* C11 (as claimed): no step changes a loader that exists (its pools, faces
\* and texture path), and a getTriangles call on the loader of the call
\* before it ends as that call did, with the same triangle sequence.
C11_AssemblyRepeatable ==
    [][/\ \A k \in 1..Len(loaders) :
              k <= Len(loaders') /\ loaders'[k] = loaders[k]
       /\ (ret.loader # 0 /\ ret'.loader = ret.loader) => ret' = ret]_vars

\* The number of faces of the loaders before the k-th.
RECURSIVE FacesBefore(_, _)
FacesBefore(lds, k) ==
    IF k <= 1 THEN 0 ELSE FacesBefore(lds, k - 1) + Len(lds[k - 1].faces)

\* The eight values of buf from position off + 1 on are x, y, z, nx, ny, nz,
\* u, v of corner i of triangle tr, before any shift.
CornerAt(buf, off, tr, i) ==
    /\ buf[off + 1].base = tr.vertices[i].x
    /\ buf[off + 2].base = tr.vertices[i].y
    /\ buf[off + 3].base = tr.vertices[i].z
    /\ buf[off + 4].base = tr.normals[i].nx
    /\ buf[off + 5].base = tr.normals[i].ny
    /\ buf[off + 6].base = tr.normals[i].nz
    /\ buf[off + 7].base = tr.textures[i].u
    /\ buf[off + 8].base = tr.textures[i].v

C13_GameOverFreezes ==
    [][(gameOver /\ gameOver')
       => UNCHANGED <<tick, dayTick, g, isJumping>>]_vars

\* C14 (as claimed): a frame in which the game is not over resets dayTick to
\* 0 and toggles isDaytime exactly when it is the 5000th such frame since
\* the last reset or restart (dayTick counts them, so it stands at 4999).
C14_DayEvery5000 ==
    [][pc = "Body"
       => ((dayTick' = 0 /\ isDaytime' = ~isDaytime) <=> dayTick + 1 = 5000)
      ]_vars

\* C15 (as claimed): in a frame of a jump (the body running with isJumping
\* true) the height goes down only when the jump has reached 152 or more,
\* and the jump ends only with the height at 0 or below after such a
\* descent.  A restart that cuts a jump short is not held against the claim.
C15_FullArc ==
    [][(pc = "Body" /\ isJumping)
       => /\ g'.currentDinoHeight < g.currentDinoHeight => jumpPeak >= 152
          /\ ~isJumping' => (g'.currentDinoHeight <= 0 /\ jumpPeak >= 152)
      ]_vars

\* C16 (as claimed): with debug mode off the cactus never steps over the
\* collision window: a frame that starts with g.cactusPosition to the right
\* of -100 does not end with it to the left of -150, whatever cactusSpeed
\* has become (a respawn ends the frame at 400 or more).
C16_WindowNeverSkipped ==
    [][(pc = "Body" /\ ~gDebug /\ g.cactusPosition > -100)
       => g'.cactusPosition >= -150]_vars
====
